---- MODULE Spec2Model ----
(***************************************************************************)
(* Daylight detector block (pumpkin/src/block/blocks/redstone/             *)
(* daylight_detector.rs): the pure power evaluation and the three          *)
(* handlers placed, on_scheduled_tick and normal_use, with the redstone    *)
(* queries.  Floating point values are fixed-point integers with four      *)
(* decimal digits (Fixed(1, 1) is 1.0).                                    *)
(***************************************************************************)
EXTENDS Integers, Sequences, FiniteSets, TLC

(***************************************************************************)
(* Fixed-point arithmetic standing for f32 / f64.                          *)
(***************************************************************************)

\* the f32/f64 value n/d
Fixed(n, d) == (n * 10000) \div d

\* f32/f64 product a * b
FMul(a, b) == (a * b) \div Fixed(1, 1)

\* std::f64::consts::PI, std::f32::consts::PI
PI == 31416

Abs(x) == IF x < 0 THEN -x ELSE x

\* f64::fract: the fractional part, with the sign of x
fract(x) == IF x >= 0 THEN x % Fixed(1, 1) ELSE -((-x) % Fixed(1, 1))

\* cosine on [0, PI/2] by its power series
CosSeries(a) ==
    LET y  == FMul(a, a)
        t1 == y \div 2
        t2 == FMul(t1, y) \div 12
        t3 == FMul(t2, y) \div 30
        t4 == FMul(t3, y) \div 56
    IN  Fixed(1, 1) - t1 + t2 - t3 + t4

\* f32::cos / f64::cos: even, period 2*PI, cos(PI - a) = -cos(a)
cos(x) ==
    LET r == Abs(x) % (2 * PI)
        a == IF r > PI THEN 2 * PI - r ELSE r
    IN  IF 2 * a > PI THEN -CosSeries(PI - a) ELSE CosSeries(a)

\* f32::clamp / i32::clamp
clamp(x, lo, hi) == IF x < lo THEN lo ELSE IF x > hi THEN hi ELSE x

\* f32::round: to the nearest integer, halves away from zero
round(x) ==
    IF x >= 0 THEN (x + Fixed(1, 2)) \div Fixed(1, 1)
              ELSE -((-x + Fixed(1, 2)) \div Fixed(1, 1))

\* `as u8` on an f32: truncation toward zero, saturating at 0 and 255
as_u8(x) == IF x <= 0 THEN 0 ELSE clamp(x \div Fixed(1, 1), 0, 255)

(***************************************************************************)
(* The evaluator.                                                          *)
(***************************************************************************)

time_of_day(day_time) ==
    LET d == fract((day_time * Fixed(1, 1)) \div 24000 - Fixed(1, 4))
        e == Fixed(1, 2) - cos(FMul(d, PI)) \div 2
    IN  (d * 2 + e) \div 3

\* the subtraction with rain brightening the sky
calculate_sky_light_subtraction_brighter(time, rain_grad, thunder_grad) ==
    LET tod     == time_of_day(time)
        cos_val == cos(FMul(tod, PI) * 2)
        b0      == Fixed(1, 2) + 2 * clamp(cos_val, -Fixed(1, 4), Fixed(1, 4))
        b1      == FMul(b0, Fixed(1, 1) + (rain_grad * 5) \div 16)
        b2      == FMul(b1, Fixed(1, 1) - (thunder_grad * 5) \div 16)
    IN  as_u8((Fixed(1, 1) - b2) * 11)

calculate_sky_light_subtraction(time, rain_grad, thunder_grad) ==
    LET tod     == time_of_day(time)
        cos_val == cos(FMul(tod, PI) * 2)
        b0      == Fixed(1, 2) + 2 * clamp(cos_val, -Fixed(1, 4), Fixed(1, 4))
        b1      == FMul(b0, Fixed(1, 1) - (rain_grad * 5) \div 16)
        b2      == FMul(b1, Fixed(1, 1) - (thunder_grad * 5) \div 16)
    IN  as_u8((Fixed(1, 1) - b2) * 11)

get_sun_angle(time) == FMul(time_of_day(time), PI) * 2

\* the subtraction without saturation
saturating_sub_plain(a, b) == a - b

\* u8::saturating_sub
saturating_sub(a, b) == IF a >= b THEN a - b ELSE 0

\* Option / Result values: <<v>> is Some(v) / Ok(v), <<>> is None / Err
Some(v) == <<v>>
None == <<>>

\* a failed lookup read as full sky light
unwrap_or_15(r) == IF r = None THEN 15 ELSE r[1]

\* unwrap_or(0)
unwrap_or_0(r) == IF r = None THEN 0 ELSE r[1]

calculate_internal_light(sky, time, rain, thunder) ==
    saturating_sub(unwrap_or_0(sky),
                   calculate_sky_light_subtraction(time, rain, thunder))

\* calculate_power without the final clamp
calculate_power_unclamped(internal_light, inv, time) ==
    LET sun_angle == get_sun_angle(time)
        target    == IF sun_angle < PI THEN 0 ELSE PI * 2
        eased     == sun_angle + FMul(target - sun_angle, Fixed(1, 5))
    IN  IF inv THEN 15 - internal_light
        ELSE IF internal_light > 0
             THEN round(internal_light * cos(eased))
             ELSE 0

\* calculate_power without the internal_light > 0 test
calculate_power_ungated(internal_light, inv, time) ==
    LET sun_angle == get_sun_angle(time)
        target    == IF sun_angle < PI THEN 0 ELSE PI * 2
        eased     == sun_angle + FMul(target - sun_angle, Fixed(1, 5))
        signal    == IF inv THEN 15 - internal_light
                     ELSE round(internal_light * cos(eased))
    IN  clamp(signal, 0, 15)

\* calculate_power applying the sun angle in inverted mode too
calculate_power_sun_inverted(internal_light, inv, time) ==
    LET sun_angle == get_sun_angle(time)
        target    == IF sun_angle < PI THEN 0 ELSE PI * 2
        eased     == sun_angle + FMul(target - sun_angle, Fixed(1, 5))
        signal    == IF inv THEN 15 - round(internal_light * cos(eased))
                     ELSE IF internal_light > 0
                          THEN round(internal_light * cos(eased))
                          ELSE 0
    IN  clamp(signal, 0, 15)

calculate_power(internal_light, inv, time) ==
    LET sun_angle == get_sun_angle(time)
        target    == IF sun_angle < PI THEN 0 ELSE PI * 2
        eased     == sun_angle + FMul(target - sun_angle, Fixed(1, 5))
        signal    == IF inv THEN 15 - internal_light
                     ELSE IF internal_light > 0
                          THEN round(internal_light * cos(eased))
                          ELSE 0
    IN  clamp(signal, 0, 15)

(***************************************************************************)
(* Block state encoding (DaylightDetectorLikeProperties).                  *)
(***************************************************************************)

\* number of entries of block.states: 2 inverted values times 16 powers
NumStates == 2 * 16

to_index(props) == (IF props.inverted THEN 0 ELSE 16) + props.power

from_state_id(id) == [inverted |-> id < 16, power |-> id % 16]

\* block.states.get(offset): the state id at that offset, if there is one
states_get(offset) == IF offset \in 0 .. (NumStates - 1) THEN Some(offset) ELSE None

(***************************************************************************)
(* Bounds and the sets the environment is drawn from.                      *)
(***************************************************************************)

\* most pending scheduled ticks the model lets the scheduler hold
MaxPending == 2
\* consecutive undisturbed executions counted exactly; larger counts collapse
MaxStreak == 3
\* the evaluator is exercised on internal lights -MaxLight .. MaxLight
MaxLight == 20
\* and on the day times 0, 1000, .. MaxHour * 1000
MaxHour == 48
\* and on the rain and thunder levels 0, 1/MaxGrade, .. 1
MaxGrade == 4

\* the environments explored when hooks may overlap ...
DayTimes   == {1000, 13000}
SkyLevels  == {None, Some(15)}
Weathers   == {[rain_level |-> 0, thunder_level |-> 0],
               [rain_level |-> Fixed(1, 1), thunder_level |-> Fixed(1, 1)]}

\* ... and, more of them, when the caller serializes the hooks
SerialDayTimes  == {1000, 6000, 13000, 22000, 30000}
SerialSkyLevels == {None, Some(0), Some(7), Some(15)}
SerialWeathers  == {[rain_level |-> 0, thunder_level |-> 0],
                    [rain_level |-> Fixed(1, 1), thunder_level |-> 0],
                    [rain_level |-> Fixed(1, 1), thunder_level |-> Fixed(1, 1)]}

Handlers == {"tick", "use"}
Other(h) == IF h = "tick" THEN "use" ELSE "tick"

VARIABLES
    block_state,    \* state id stored in the world at the detector's position
    has_skylight,   \* world.dimension.has_skylight
    day_time,       \* world.level_time.query_daytime()
    sky_light,      \* light_engine.get_sky_light_level(): Ok(level) or Err
    weather,        \* world.weather: [rain_level, thunder_level]
    pending,        \* scheduled block ticks of the detector, oldest first
    placed,         \* the placed hook has run
    proc,           \* per handler: position and locals of its future
    query,          \* last values returned by the two redstone queries
    serialized,     \* the caller runs the hooks of one position one at a time
    hist,           \* history: what ran since the environment last changed
    eval            \* evaluator harness: inputs and output

vars == <<block_state, has_skylight, day_time, sky_light, weather, pending,
          placed, proc, query, serialized, hist, eval>>

env_vars == <<day_time, sky_light, weather>>

\* what no handler changes
fixed_vars == <<has_skylight, serialized, eval>>

\* the stored properties
stored == from_state_id(block_state)

IdleProc ==
    [pc |-> "idle", props |-> [inverted |-> FALSE, power |-> 0],
     inverted |-> FALSE,
     log |-> <<>>, result |-> None, fresh |-> TRUE]

NoHist == [settled |-> FALSE, op |-> "none", n |-> 0, inv0 |-> FALSE]

\* fn names the function applied; the fields after power are the inputs and
\* outputs of the functions other than calculate_power
NoEval ==
    [done |-> FALSE, light |-> 0, inverted |-> FALSE, time |-> 0, power |-> 0,
     fn |-> "none", sky |-> None, rain |-> 0, thunder |-> 0,
     rain_hi |-> 0, thunder_hi |-> 0,
     tod |-> 0, tod_next |-> 0,
     sub |-> 0, sub_rain |-> 0, sub_thunder |-> 0,
     il |-> 0, pw_plain |-> 0, pw_inv |-> 0]

WriteEvent(id, flags) == [kind |-> "write", state |-> id, flags |-> flags]
ScheduleEvent(delay, priority) ==
    [kind |-> "schedule", delay |-> delay, priority |-> priority]

NoQuery == [emits |-> None, weak |-> None]

(***************************************************************************)
(* History bookkeeping (not program state).                                *)
(*   proc[h].fresh   no environment change since h began                   *)
(*   hist.settled    the last update_state to finish ran in the current    *)
(*                   environment                                           *)
(*   hist.op, n      in a serialized run: n executions of handler op ran,  *)
(*                   one after another, since the last environment change  *)
(*                   and with no execution of the other handler; inv0 is   *)
(*                   the inverted value stored when the first of them      *)
(*                   began                                                 *)
(***************************************************************************)

Min(a, b) == IF a < b THEN a ELSE b

\* proc after a step of handler h that leaves h's future as np
Stepped(h, np) == [proc EXCEPT ![h] = np]

HistStart(h) ==
    IF ~serialized THEN hist
    ELSE IF hist.op = h
    THEN [hist EXCEPT !.n = Min(@ + 1, MaxStreak)]
    ELSE [hist EXCEPT !.op = h, !.n = 1, !.inv0 = stored.inverted]

HistEnv == NoHist

ProcEnv == [h \in Handlers |-> [proc[h] EXCEPT !.fresh = @ /\ proc[h].pc = "idle"]]

(***************************************************************************)
(* Initial state: the block has just been set in the world with the        *)
(* default properties; its placed hook has not run yet.                    *)
(***************************************************************************)

Init ==
    /\ block_state = to_index([inverted |-> FALSE, power |-> 0])
    /\ has_skylight \in BOOLEAN
    /\ day_time \in DayTimes
    /\ sky_light \in SkyLevels
    /\ weather \in Weathers
    /\ pending = <<>>
    /\ placed = FALSE
    /\ proc = [h \in Handlers |-> IdleProc]
    /\ query = NoQuery
    /\ serialized = FALSE
    /\ hist = NoHist
    /\ eval = NoEval

\* the same, with a caller that serializes the hooks
SerialInit ==
    /\ block_state = to_index([inverted |-> FALSE, power |-> 0])
    /\ has_skylight \in BOOLEAN
    /\ day_time \in SerialDayTimes
    /\ sky_light \in SerialSkyLevels
    /\ weather \in SerialWeathers
    /\ pending = <<>>
    /\ placed = FALSE
    /\ proc = [h \in Handlers |-> IdleProc]
    /\ query = NoQuery
    /\ serialized = TRUE
    /\ hist = NoHist
    /\ eval = NoEval

\* placed without the has_skylight test
Placed_unconditional ==
    /\ ~placed
    /\ placed' = TRUE
    /\ pending' = Append(pending, ScheduleEvent(20, "Normal"))
    /\ query' = NoQuery
    /\ UNCHANGED <<block_state, fixed_vars, env_vars, proc, hist>>

(***************************************************************************)
(* placed                                                                  *)
(***************************************************************************)

Placed ==
    /\ ~placed
    /\ placed' = TRUE
    /\ pending' = IF has_skylight
                  THEN Append(pending, ScheduleEvent(20, "Normal"))
                  ELSE pending
    /\ query' = NoQuery
    /\ UNCHANGED <<block_state, fixed_vars, env_vars, proc, hist>>

(***************************************************************************)
(* update_state, called by on_scheduled_tick and normal_use.  Its reads    *)
(* (level_time, get_sky_light_level, weather) touch only the               *)
(* collaborators' state, which changes freely between any two steps, so    *)
(* they are taken in one step with the comparison and the write; the       *)
(* window between the handler's get_block_state and this write stays open. *)
(***************************************************************************)

\* the power computed as if the weather were always clear
new_power_clear_sky(inv) ==
    LET time == day_time
        internal_light == calculate_internal_light(sky_light, time, 0, 0)
    IN  calculate_power(internal_light, inv, time)

\* the power update_state computes for its inverted argument
new_power(inv) ==
    LET time == day_time
        internal_light == calculate_internal_light(sky_light, time,
                              weather.rain_level, weather.thunder_level)
    IN  calculate_power(internal_light, inv, time)

\* update_state writing on every call
power_changed_always(np, current_power) == TRUE

\* update_state writing only when the power rises
power_changed_rising(np, current_power) == np > current_power

\* update_state writes exactly when this holds
power_changed(np, current_power) == np # current_power

\* on_scheduled_tick returning right after update_state
AfterUpdate_skip(h) == "done"

\* where the handler goes on after update_state returns
AfterUpdate(h) == IF h = "tick" THEN "schedule" ELSE "done"

UpdateState(h) ==
    /\ proc[h].pc = "update"
    /\ LET p         == proc[h]
           np        == new_power(p.inverted)
           new_state == states_get(to_index([inverted |-> p.inverted, power |-> np]))
           writes    == power_changed(np, p.props.power) /\ new_state # None
           \* update_state returns: its arguments and locals are gone
           q         == [IdleProc EXCEPT !.pc = AfterUpdate(h),
                                         !.props = p.props,
                                         !.log = p.log,
                                         !.result = IF h = "use" THEN Some("Success") ELSE None]
       IN  /\ block_state' = IF writes THEN new_state[1] ELSE block_state
           /\ proc' = Stepped(h, IF writes
                                 THEN [q EXCEPT !.log = Append(@, WriteEvent(new_state[1], "NOTIFY_ALL"))]
                                 ELSE q)
           /\ hist' = [hist EXCEPT !.settled = p.fresh]
    /\ query' = NoQuery
    /\ UNCHANGED <<fixed_vars, env_vars, pending, placed>>

\* the handler's future completes
Return(h) ==
    /\ proc[h].pc = "done"
    /\ proc' = Stepped(h, IdleProc)
    /\ hist' = hist
    /\ query' = NoQuery
    /\ UNCHANGED <<block_state, fixed_vars, env_vars, pending, placed>>

(***************************************************************************)
(* on_scheduled_tick                                                       *)
(***************************************************************************)

\* the scheduler fires the oldest pending tick; get_block_state(..).await
TickRead ==
    /\ placed
    /\ proc["tick"].pc = "idle"
    /\ serialized => proc["use"].pc = "idle"
    /\ pending # <<>>
    /\ pending' = Tail(pending)
    /\ proc' = Stepped("tick", [IdleProc EXCEPT !.pc = "update",
                                                !.props = stored,
                                                !.inverted = stored.inverted])
    /\ hist' = HistStart("tick")
    /\ query' = NoQuery
    /\ UNCHANGED <<block_state, fixed_vars, env_vars, placed>>

\* on_scheduled_tick returning without re-arming
TickSchedule_forgotten ==
    /\ proc["tick"].pc = "schedule"
    /\ proc' = Stepped("tick", [proc["tick"] EXCEPT !.pc = "done"])
    /\ hist' = hist
    /\ query' = NoQuery
    /\ UNCHANGED <<block_state, fixed_vars, env_vars, pending, placed>>

\* schedule_block_tick(.., 20, TickPriority::Normal).await
TickSchedule ==
    /\ proc["tick"].pc = "schedule"
    /\ Len(pending) < MaxPending
    /\ pending' = Append(pending, ScheduleEvent(20, "Normal"))
    /\ proc' = Stepped("tick", [proc["tick"] EXCEPT
                                   !.pc = "done",
                                   !.log = Append(@, ScheduleEvent(20, "Normal"))])
    /\ hist' = hist
    /\ query' = NoQuery
    /\ UNCHANGED <<block_state, fixed_vars, env_vars, placed>>

(***************************************************************************)
(* normal_use                                                              *)
(***************************************************************************)

\* get_block_state(..).await
UseRead ==
    /\ placed
    /\ proc["use"].pc = "idle"
    /\ serialized => proc["tick"].pc = "idle"
    /\ proc' = Stepped("use", [IdleProc EXCEPT !.pc = "flip",
                                               !.props = stored])
    /\ hist' = HistStart("use")
    /\ query' = NoQuery
    /\ UNCHANGED <<block_state, fixed_vars, env_vars, pending, placed>>

\* the first write resetting the power
toggled_props_zero(props) == [inverted |-> ~props.inverted, power |-> 0]

\* the first write leaving inverted as it was
toggled_props_kept(props) == [inverted |-> props.inverted, power |-> props.power]

\* the first write setting inverted instead of cycling it
toggled_props_set(props) == [inverted |-> TRUE, power |-> props.power]

\* the properties normal_use writes first
toggled_props(props) == [inverted |-> ~props.inverted, power |-> props.power]

\* set_block_state(.., NOTIFY_LISTENERS).await with inverted cycled
UseFlip ==
    /\ proc["use"].pc = "flip"
    /\ LET p         == proc["use"]
           new_state == states_get(to_index(toggled_props(p.props)))
           q         == [p EXCEPT !.pc = "update", !.inverted = ~p.props.inverted]
       IN  /\ block_state' = IF new_state # None THEN new_state[1] ELSE block_state
           /\ proc' = Stepped("use", IF new_state # None
                                     THEN [q EXCEPT !.log = Append(@, WriteEvent(new_state[1], "NOTIFY_LISTENERS"))]
                                     ELSE q)
    /\ hist' = hist
    /\ query' = NoQuery
    /\ UNCHANGED <<fixed_vars, env_vars, pending, placed>>

(***************************************************************************)
(* emits_redstone_power, get_weak_redstone_power                           *)
(***************************************************************************)

emits_redstone_power_value == TRUE

\* the weak power recomputed from the environment
get_weak_redstone_power_recomputed == new_power(from_state_id(block_state).inverted)

get_weak_redstone_power_value == from_state_id(block_state).power

EmitsRedstonePower ==
    /\ placed
    /\ query' = [NoQuery EXCEPT !.emits = Some(emits_redstone_power_value)]
    /\ UNCHANGED <<block_state, fixed_vars, env_vars, pending, placed, proc, hist>>

GetWeakRedstonePower ==
    /\ placed
    /\ query' = [NoQuery EXCEPT !.weak = Some(get_weak_redstone_power_value)]
    /\ UNCHANGED <<block_state, fixed_vars, env_vars, pending, placed, proc, hist>>

(***************************************************************************)
(* The collaborators change the environment at any time.                   *)
(***************************************************************************)

TimeChange ==
    /\ \E t \in (IF serialized THEN SerialDayTimes ELSE DayTimes) \ {day_time} : day_time' = t
    /\ proc' = ProcEnv /\ hist' = HistEnv /\ query' = NoQuery
    /\ UNCHANGED <<block_state, fixed_vars, sky_light, weather, pending, placed>>

LightChange ==
    /\ \E l \in (IF serialized THEN SerialSkyLevels ELSE SkyLevels) \ {sky_light} : sky_light' = l
    /\ proc' = ProcEnv /\ hist' = HistEnv /\ query' = NoQuery
    /\ UNCHANGED <<block_state, fixed_vars, day_time, weather, pending, placed>>

WeatherChange ==
    /\ \E w \in (IF serialized THEN SerialWeathers ELSE Weathers) \ {weather} : weather' = w
    /\ proc' = ProcEnv /\ hist' = HistEnv /\ query' = NoQuery
    /\ UNCHANGED <<block_state, fixed_vars, day_time, sky_light, pending, placed>>

Next ==
    \/ Placed
    \/ TickRead
    \/ UseRead
    \/ UseFlip
    \/ \E h \in Handlers : UpdateState(h)
    \/ TickSchedule
    \/ \E h \in Handlers : Return(h)
    \/ TimeChange
    \/ LightChange
    \/ WeatherChange

\* the handlers and the environment, hooks of one position free to overlap
Spec == Init /\ [][Next]_vars

\* the same under a caller that serializes the hooks
SerialSpec == SerialInit /\ [][Next]_vars

\* the scheduler fires every pending tick and the runtime drives the tick's
\* future to completion
FairSpec ==
    /\ Init /\ [][Next]_vars
    /\ WF_vars(TickRead)
    /\ WF_vars(TickSchedule)
    /\ WF_vars(Return("tick"))
    \* WF_vars(UpdateState("tick")), with its enabling condition written out
    /\ \/ []<>(proc["tick"].pc # "update")
       \/ []<><<UpdateState("tick")>>_vars

\* with the redstone queries, which may come at any time
QueryNext ==
    \/ Next
    \/ EmitsRedstonePower
    \/ GetWeakRedstonePower

QuerySpec == SerialInit /\ [][QueryNext]_vars

(***************************************************************************)
(* The evaluator on its own: calculate_power applied to inputs from        *)
(* bounded sets.                                                           *)
(***************************************************************************)

EvalLights == (0 - MaxLight) .. MaxLight
EvalTimes  == {h * 1000 : h \in 0 .. MaxHour}
EvalLevels == {Fixed(k, MaxGrade) : k \in 0 .. MaxGrade}
EvalSkies  == {None} \cup {Some(l) : l \in 0 .. 15}

\* calculate_power(light, inverted, time)
PowerInputs ==
    {[NoEval EXCEPT !.fn = "power", !.light = l, !.inverted = i, !.time = t] :
        l \in EvalLights, i \in BOOLEAN, t \in EvalTimes}

\* time_of_day(time) and time_of_day(time + 24000)
TimeInputs ==
    {[NoEval EXCEPT !.fn = "time_of_day", !.time = t] : t \in EvalTimes}

\* calculate_sky_light_subtraction(time, rain, thunder), and the same with
\* more rain (rain_hi) and with more thunder (thunder_hi)
SubtractionInputs ==
    {[NoEval EXCEPT !.fn = "subtraction", !.time = t, !.rain = r[1],
                    !.rain_hi = r[2], !.thunder = th[1], !.thunder_hi = th[2]] :
        t \in EvalTimes,
        r \in {x \in EvalLevels \X EvalLevels : x[1] <= x[2]},
        th \in {x \in EvalLevels \X EvalLevels : x[1] <= x[2]}}

\* calculate_internal_light with the lookup result sky, and calculate_power
\* on its result in both modes
LightInputs ==
    {[NoEval EXCEPT !.fn = "light", !.sky = k, !.time = t, !.rain = r,
                    !.thunder = th] :
        k \in EvalSkies, t \in EvalTimes, r \in EvalLevels, th \in EvalLevels}

EvalInit ==
    /\ block_state = to_index([inverted |-> FALSE, power |-> 0])
    /\ has_skylight = TRUE
    /\ day_time = 0
    /\ sky_light = None
    /\ weather = [rain_level |-> 0, thunder_level |-> 0]
    /\ pending = <<>>
    /\ placed = FALSE
    /\ proc = [h \in Handlers |-> IdleProc]
    /\ query = NoQuery
    /\ serialized = FALSE
    /\ hist = NoHist
    /\ eval \in PowerInputs \cup TimeInputs \cup SubtractionInputs \cup LightInputs

EvalPower ==
    /\ eval.fn = "power"
    /\ ~eval.done
    /\ eval' = [eval EXCEPT !.done = TRUE,
                            !.power = calculate_power(eval.light, eval.inverted, eval.time)]
    /\ UNCHANGED <<block_state, has_skylight, serialized, env_vars, pending,
                   placed, proc, query, hist>>

EvalTimeOfDay ==
    /\ eval.fn = "time_of_day"
    /\ ~eval.done
    /\ eval' = [eval EXCEPT !.done = TRUE,
                            !.tod = time_of_day(eval.time),
                            !.tod_next = time_of_day(eval.time + 24000)]
    /\ UNCHANGED <<block_state, has_skylight, serialized, env_vars, pending,
                   placed, proc, query, hist>>

EvalSubtraction ==
    /\ eval.fn = "subtraction"
    /\ ~eval.done
    /\ eval' = [eval EXCEPT
          !.done = TRUE,
          !.sub = calculate_sky_light_subtraction(eval.time, eval.rain, eval.thunder),
          !.sub_rain = calculate_sky_light_subtraction(eval.time, eval.rain_hi, eval.thunder),
          !.sub_thunder = calculate_sky_light_subtraction(eval.time, eval.rain, eval.thunder_hi)]
    /\ UNCHANGED <<block_state, has_skylight, serialized, env_vars, pending,
                   placed, proc, query, hist>>

EvalLight ==
    /\ eval.fn = "light"
    /\ ~eval.done
    /\ LET internal_light == calculate_internal_light(eval.sky, eval.time,
                                                      eval.rain, eval.thunder)
       IN  eval' = [eval EXCEPT
              !.done = TRUE,
              !.il = internal_light,
              !.pw_plain = calculate_power(internal_light, FALSE, eval.time),
              !.pw_inv = calculate_power(internal_light, TRUE, eval.time)]
    /\ UNCHANGED <<block_state, has_skylight, serialized, env_vars, pending,
                   placed, proc, query, hist>>

EvalNext ==
    \/ EvalPower
    \/ EvalTimeOfDay
    \/ EvalSubtraction
    \/ EvalLight

EvalSpec == EvalInit /\ [][EvalNext]_vars

(***************************************************************************)
(* Properties.                                                             *)
(***************************************************************************)

Last(q) == q[Len(q)]

\* handler h takes its update_state step
UpdateStep(h) == proc[h].pc = "update" /\ proc'[h].pc # "update"

\* the events of log that are writes
Writes(log) == SelectSeq(log, LAMBDA e : e.kind = "write")

\* C1: when a tick and a toggle on one detector overlap, no toggle is lost:
\* once the toggle has completed and no tick is running, the stored inverted
\* value is the negation of the one the toggle read.
C1_NoLostToggle ==
    (proc["use"].pc = "done" /\ proc["tick"].pc = "idle")
        => stored.inverted = ~proc["use"].props.inverted

\* C2: update_state writes the block state exactly when the power it computed
\* differs from the power read at the start of the operation; and the second
\* of two ticks that ran one after the other in the same environment, with no
\* toggle between them, writes nothing.
C2_IdempotentWrite ==
    [][\A h \in Handlers : UpdateStep(h) =>
          /\ (proc'[h].log # proc[h].log) <=>
                 (new_power(proc[h].inverted) # proc[h].props.power)
          /\ (block_state' # block_state) => (proc'[h].log # proc[h].log)
          /\ (h = "tick" /\ hist.op = "tick" /\ hist.n >= 2) =>
                 (block_state' = block_state /\ proc'[h].log = proc[h].log)]_vars

\* a second tick in an unchanged environment has completed without a write
C2_Witness ==
    /\ hist.op = "tick" /\ hist.n >= 2
    /\ proc["tick"].pc = "done"
    /\ Writes(proc["tick"].log) = <<>>
    /\ stored.power > 0

\* C3: every execution of on_scheduled_tick requests exactly one tick, with
\* delay 20 and normal priority, after its write if it made one; and in a
\* dimension with skylight, once the detector is placed, on_scheduled_tick
\* runs again and again.
C3_SelfPerpetuating ==
    /\ [](proc["tick"].pc = "done" =>
            LET log == proc["tick"].log
            IN  /\ Len(log) \in {1, 2}
                /\ Last(log) = ScheduleEvent(20, "Normal")
                /\ \A i \in 1 .. (Len(log) - 1) : log[i].kind = "write")
    /\ [][(proc["tick"].pc = "schedule" /\ proc'["tick"].pc # "schedule") =>
            pending' = Append(pending, ScheduleEvent(20, "Normal"))]_vars
    /\ \/ <>[](~(has_skylight /\ placed))
       \/ []<><<TickRead>>_vars

\* a tick that wrote nothing has re-armed the next one
C3_Witness ==
    /\ proc["tick"].pc = "done"
    /\ proc["tick"].log = <<ScheduleEvent(20, "Normal")>>
    /\ pending = <<ScheduleEvent(20, "Normal")>>

\* C4: in a dimension without skylight no tick is ever pending,
\* on_scheduled_tick never runs, and the stored state changes only by a
\* write of normal_use.
C4_Inert ==
    /\ [](~has_skylight => (pending = <<>> /\ proc["tick"].pc = "idle"))
    /\ [][(~has_skylight /\ block_state' # block_state) =>
            /\ proc["use"].pc \in {"flip", "update"}
            /\ Len(proc'["use"].log) = Len(proc["use"].log) + 1
            /\ Last(proc'["use"].log).kind = "write"
            /\ Last(proc'["use"].log).state = block_state']_vars

\* a toggle has run to completion in a dimension without skylight
C4_Witness ==
    /\ ~has_skylight /\ placed
    /\ proc["use"].pc = "done"
    /\ Len(proc["use"].log) = 2

\* C5 as stated: whenever no toggle is in progress, the stored power is the
\* evaluator's output for the current environment and the stored inverted.
C5_AlwaysCurrent ==
    (placed /\ proc["use"].pc = "idle")
        => stored.power = new_power(stored.inverted)

\* C5, amended: whenever no toggle is in progress and the environment has not
\* changed since the handler of the last finished evaluation began, the stored
\* power is the evaluator's output for the current environment and the stored
\* inverted value.
C5_CurrentWhenSettled ==
    (hist.settled /\ proc["use"].pc \in {"idle", "done"})
        => stored.power = new_power(stored.inverted)

\* settled after a toggle, with a power that is not the default
C5_Witness ==
    /\ hist.settled
    /\ proc["use"].pc = "idle" /\ proc["tick"].pc = "idle"
    /\ stored.inverted /\ stored.power > 0

\* C6: normal_use first writes, listeners-only, the state with inverted
\* negated and the power it read; then writes, notify-all, the recomputed
\* power exactly when it differs from the power read; it makes no other
\* write, schedules no tick and returns Success.
C6_ToggleProtocol ==
    /\ [](proc["use"].pc = "update" =>
            proc["use"].log =
                <<WriteEvent(to_index([inverted |-> ~proc["use"].props.inverted,
                                       power |-> proc["use"].props.power]),
                             "NOTIFY_LISTENERS")>>)
    /\ [][UpdateStep("use") =>
            LET np == new_power(~proc["use"].props.inverted)
            IN  /\ proc'["use"].pc = "done"
                /\ proc'["use"].result = Some("Success")
                /\ proc'["use"].log =
                     IF np # proc["use"].props.power
                     THEN Append(proc["use"].log,
                                 WriteEvent(to_index([inverted |-> ~proc["use"].props.inverted,
                                                      power |-> np]),
                                            "NOTIFY_ALL"))
                     ELSE proc["use"].log]_vars
    /\ [][proc'["use"] # proc["use"] => pending' = pending]_vars

\* a toggle has completed with both writes
C6_Witness ==
    /\ proc["use"].pc = "done"
    /\ Len(proc["use"].log) = 2
    /\ proc["use"].log[2].flags = "NOTIFY_ALL"

\* C7: a toggle that no other operation overlaps leaves, from (i, p), the
\* state (not i, power computed for not i in the environment it read), also
\* when that power equals p.
C7_TogglePost ==
    [][UpdateStep("use") =>
          stored' = [inverted |-> ~proc["use"].props.inverted,
                     power |-> new_power(~proc["use"].props.inverted)]]_vars

\* a serialized toggle completed whose recomputed power equalled the one read
C7_Witness ==
    /\ serialized
    /\ proc["use"].pc = "done"
    /\ Len(proc["use"].log) = 1
    /\ stored.power = proc["use"].props.power
    /\ stored.power > 0

\* C8: after two toggles in immediate succession, with no environment change
\* and no tick between them, inverted is back at its original value and the
\* power is the one computed for that value.
C8_DoubleToggle ==
    (proc["use"].pc = "done" /\ hist.op = "use" /\ hist.n = 2)
        => /\ stored.inverted = hist.inv0
           /\ stored.power = new_power(hist.inv0)

\* the second toggle of such a pair has completed
C8_Witness ==
    /\ proc["use"].pc = "done" /\ hist.op = "use" /\ hist.n = 2
    /\ hist.inv0
    /\ Len(proc["use"].log) = 2

\* C9: emits_redstone_power returns true; get_weak_redstone_power returns the
\* stored power; neither changes the block state, the pending ticks, the
\* handlers or the environment.
C9_QueriesReadOnly ==
    [][(query' # query /\ query' # NoQuery) =>
          /\ query'.emits \in {None, Some(TRUE)}
          /\ query'.weak \in {None, Some(stored.power)}
          /\ UNCHANGED <<block_state, pending, proc, env_vars, placed>>]_vars

\* the weak power returned is not what an evaluation would compute now
C9_Witness ==
    /\ query.weak # None
    /\ query.weak # Some(new_power(stored.inverted))

\* C10: calculate_power returns a value in 0 .. 15 for every internal light,
\* inverted and time.
C10_PowerRange == eval.done => eval.power \in 0 .. 15

\* a signal below 0 and a signal above 15 have been clamped
C10_Witness ==
    /\ eval.done
    /\ \/ eval.inverted /\ eval.light < 0 /\ eval.power = 15
       \/ eval.inverted /\ eval.light > 15 /\ eval.power = 0

\* C11: time_of_day returns a value in [0, 1) for every day_time, and
\* time_of_day(day_time) = time_of_day(day_time + 24000).
C11_TimeOfDayRange ==
    (eval.done /\ eval.fn = "time_of_day")
        => /\ 0 <= eval.tod /\ eval.tod < Fixed(1, 1)
           /\ eval.tod = eval.tod_next

\* C12: for rain and thunder levels in [0, 1] calculate_sky_light_subtraction
\* returns an integer in 0 .. 11, and it does not decrease when the rain
\* level rises nor when the thunder level rises.
C12_SubtractionMonotone ==
    (eval.done /\ eval.fn = "subtraction")
        => /\ eval.sub \in 0 .. 11
           /\ eval.sub_rain \in 0 .. 11
           /\ eval.sub_thunder \in 0 .. 11
           /\ eval.sub <= eval.sub_rain
           /\ eval.sub <= eval.sub_thunder

\* more rain and more thunder each darkened the sky further
C12_Witness ==
    /\ eval.done /\ eval.fn = "subtraction"
    /\ eval.rain < eval.rain_hi /\ eval.thunder < eval.thunder_hi
    /\ 0 < eval.sub
    /\ eval.sub < eval.sub_rain /\ eval.sub < eval.sub_thunder

\* the darkening of the evaluator's inputs, and the sky light looked up
EvalDarken == calculate_sky_light_subtraction(eval.time, eval.rain, eval.thunder)
EvalSky == IF eval.sky = None THEN 0 ELSE eval.sky[1]

\* C13 as stated: the internal light is sky_light - darken, negative
\* whenever darken > sky_light.
C13_Unclamped ==
    (eval.done /\ eval.fn = "light") => eval.il = EvalSky - EvalDarken

\* C13, amended: the internal light is sky_light - darken saturating at 0:
\* whenever darken > sky_light it is 0, otherwise the difference.
C13_Saturating ==
    (eval.done /\ eval.fn = "light")
        => eval.il = IF EvalDarken > EvalSky THEN 0 ELSE EvalSky - EvalDarken

\* a darkening greater than a positive sky light gave internal light 0
C13_Witness ==
    /\ eval.done /\ eval.fn = "light"
    /\ 0 < EvalSky /\ EvalSky < EvalDarken
    /\ eval.il = 0

\* C14: a tick that runs with no other operation interleaved, on a detector
\* storing (inverted = i, power = p), leaves the state (inverted = i, power =
\* calculate_power(internal light, i, day_time)) for the environment its
\* update_state read; when it completes it has made at most one write, with
\* notify-all, and the stored inverted value is still i.
C14_TickPost ==
    /\ [][UpdateStep("tick") =>
            LET i  == proc["tick"].props.inverted
                il == calculate_internal_light(sky_light, day_time,
                          weather.rain_level, weather.thunder_level)
            IN  stored' = [inverted |-> i,
                           power |-> calculate_power(il, i, day_time)]]_vars
    /\ [](proc["tick"].pc = "done" =>
            LET w == Writes(proc["tick"].log)
            IN  /\ Len(w) <= 1
                /\ \A k \in 1 .. Len(w) :
                      /\ w[k].flags = "NOTIFY_ALL"
                      /\ block_state = w[k].state
                /\ stored.inverted = proc["tick"].props.inverted
                /\ (w = <<>>) => stored = proc["tick"].props)

\* a tick on an inverted detector has completed with one write of a power
\* strictly between the extremes
C14_Witness ==
    /\ serialized
    /\ proc["tick"].pc = "done"
    /\ Len(Writes(proc["tick"].log)) = 1
    /\ stored.inverted /\ stored.power \in 1 .. 14
    /\ stored.power # proc["tick"].props.power

\* C15: in every execution, ticks and toggles interleaving included, every
\* step that changes the stored inverted value is a write made by
\* normal_use; no step of placed, on_scheduled_tick or a query changes it.
C15_InvertedOnlyByUse ==
    [][stored'.inverted # stored.inverted =>
          /\ proc'["tick"] = proc["tick"]
          /\ Len(Writes(proc'["use"].log)) = Len(Writes(proc["use"].log)) + 1
          /\ Last(proc'["use"].log).state = block_state']_vars

\* C16: when get_sky_light_level fails, update_state computes power 0 if not
\* inverted and 15 if inverted, writes that power (notify-all) exactly when
\* it differs from the power read, and returns normally: on_scheduled_tick
\* goes on to schedule the next tick (its only step from there appends one
\* tick of delay 20) and normal_use returns Success.
C16_LookupFailure ==
    /\ [][\A h \in Handlers : (UpdateStep(h) /\ sky_light = None) =>
            LET inv == proc[h].inverted
                np  == IF inv THEN 15 ELSE 0
                ws  == np # proc[h].props.power
                id  == to_index([inverted |-> inv, power |-> np])
            IN  /\ block_state' = IF ws THEN id ELSE block_state
                /\ proc'[h].log =
                     IF ws THEN Append(proc[h].log, WriteEvent(id, "NOTIFY_ALL"))
                     ELSE proc[h].log
                /\ h = "tick" => proc'[h].pc = "schedule"
                /\ h = "use" => /\ proc'[h].pc = "done"
                                /\ proc'[h].result = Some("Success")]_vars
    /\ [][(proc["tick"].pc = "schedule" /\ proc'["tick"].pc # "schedule") =>
            /\ pending' = Append(pending, ScheduleEvent(20, "Normal"))
            /\ proc'["tick"].pc = "done"]_vars
    /\ [](proc["tick"].pc = "schedule" => Len(pending) < MaxPending)

\* a tick whose lookup failed wrote power 15 to an inverted detector and
\* re-armed
C16_Witness ==
    /\ sky_light = None
    /\ proc["tick"].pc = "done" /\ proc["tick"].fresh
    /\ proc["tick"].props.inverted /\ stored.inverted /\ stored.power = 15
    /\ Len(Writes(proc["tick"].log)) = 1
    /\ Last(proc["tick"].log) = ScheduleEvent(20, "Normal")
    /\ Last(pending) = ScheduleEvent(20, "Normal")

\* C17: with inverted = false, for every day_time and weather, an internal
\* light <= 0 gives power 0; in particular when sky_light = 0 or
\* darken >= sky_light, whether the difference is saturated at 0 or left
\* negative.
C17_DarknessSuppresses ==
    /\ (eval.done /\ eval.fn = "power" /\ ~eval.inverted /\ eval.light <= 0)
          => eval.power = 0
    /\ (eval.done /\ eval.fn = "light" /\ EvalDarken >= EvalSky)
          => /\ eval.pw_plain = 0
             /\ calculate_power(EvalSky - EvalDarken, FALSE, eval.time) = 0

\* a negative internal light at midnight, where the cosine factor is
\* negative, gave power 0
C17_Witness ==
    /\ eval.done /\ eval.fn = "power" /\ ~eval.inverted
    /\ eval.light < 0 /\ eval.time = 18000
    /\ cos(get_sun_angle(eval.time)) < 0
    /\ eval.power = 0

\* C18: with inverted = true the power is clamp(15 - internal_light, 0, 15)
\* whatever the day_time; for sky_light in 0..15 and the darkening of any
\* time and weather it is 15 - max(sky_light - darken, 0), the same with the
\* internal light saturated at 0 and with it left negative.
C18_InvertedPower ==
    /\ (eval.done /\ eval.fn = "power" /\ eval.inverted)
          => eval.power = IF eval.light > 15 THEN 0
                          ELSE IF eval.light < 0 THEN 15
                          ELSE 15 - eval.light
    /\ (eval.done /\ eval.fn = "light")
          => /\ EvalDarken \in 0 .. 11
             /\ eval.pw_inv = 15 - (IF EvalSky > EvalDarken
                                   THEN EvalSky - EvalDarken ELSE 0)
             /\ calculate_power(EvalSky - EvalDarken, TRUE, eval.time) = eval.pw_inv

\* an inverted evaluation whose darkening exceeds a positive sky light gave
\* power 15
C18_Witness ==
    /\ eval.done /\ eval.fn = "light"
    /\ 0 < EvalSky /\ EvalSky < EvalDarken
    /\ eval.pw_inv = 15

\* C19: with one placement and a scheduler that removes a pending tick when
\* it fires it, a detector never has more than one pending tick: none before
\* placement or without skylight, and after placement in a skylight
\* dimension exactly one whenever no tick is executing, none while one is.
C19_OnePendingTick ==
    /\ Len(pending) <= 1
    /\ (~placed \/ ~has_skylight) => pending = <<>>
    /\ (placed /\ has_skylight) =>
          (Len(pending) = 1 <=> proc["tick"].pc \in {"idle", "done"})
    /\ \A k \in 1 .. Len(pending) : pending[k] = ScheduleEvent(20, "Normal")

\* a tick has re-armed while a toggle is in flight: one tick is pending
C19_Witness ==
    /\ placed /\ has_skylight
    /\ proc["tick"].pc = "done"
    /\ Last(proc["tick"].log) = ScheduleEvent(20, "Normal")
    /\ proc["use"].pc = "update"
    /\ Len(pending) = 1

====
